---- MODULE Spec2Model ----
(***************************************************************************)
(* Model of the MediaWiki MCP server: the MediaWikiClient (one GET per     *)
(* operation against api.php), the seven registered tools with their zod   *)
(* input schemas and text rendering, and the life of a tool invocation.    *)
(*                                                                         *)
(* Strings are sequences of tokens (a token is a TLA+ string: one          *)
(* character of data, or a literal chunk of a template).  An optional JS   *)
(* value is a sequence of length 0 (undefined) or 1 (the value).           *)
(***************************************************************************)
EXTENDS Integers, Sequences, FiniteSets, TLC

VARIABLES config, client, inv, pure, sse

vars == <<config, client, inv, pure, sse>>

(* ---------------------------- bounds ----------------------------------- *)

\* Number of invocation slots that may be in flight on one shared client.
MaxInv == 2
\* Longest title / category name drawn for the pure helpers.
MaxLen == 2
\* Longest revision sequence drawn for the history rendering.
MaxRevs == 3
\* Longest snippet drawn for the search rendering.
MaxSnippet == 4
\* Streaming connections opened on the express app.
MaxConns == 2
\* Messages posted to the companion endpoint.
MaxPosts == 2

(* ---------------------------- JS values -------------------------------- *)

None == <<>>
Some(v) == <<v>>
IsSome(o) == Len(o) = 1
Get(o) == o[1]

RECURSIVE Concat(_)
Concat(ss) == IF Len(ss) = 0 THEN <<>> ELSE Head(ss) \o Concat(Tail(ss))

DigitChar == <<"0", "1", "2", "3", "4", "5", "6", "7", "8", "9">>

RECURSIVE Digits(_)
Digits(n) ==
  IF n < 10 THEN <<DigitChar[n + 1]>>
  ELSE Digits(n \div 10) \o <<DigitChar[(n % 10) + 1]>>

\* `${n}` for an integer n.
NumStr(n) == IF n < 0 THEN <<"-">> \o Digits(0 - n) ELSE Digits(n)

\* A JS number that may be NaN: None is NaN, Some(n) is n.
NaN == None
JsSub(a, b) == IF IsSome(a) /\ IsSome(b) THEN Some(Get(a) - Get(b)) ELSE NaN
JsGt0(x) == IsSome(x) /\ Get(x) > 0
JsNumStr(x) == IF IsSome(x) THEN NumStr(Get(x)) ELSE <<"NaN">>

StartsWith(s, p) == Len(s) >= Len(p) /\ SubSeq(s, 1, Len(p)) = p

CategoryPrefix == <<"C", "a", "t", "e", "g", "o", "r", "y", ":">>

(* ---------------------------- configuration ---------------------------- *)

\* MediaWikiConfig: baseUrl, and the optional username, password, apiToken.
Configs ==
  [baseUrl  : {<<"h", ":", "/", "/", "w">>, <<"h", ":", "/", "/", "w", "/">>},
   username : {None, Some(<<"u">>)},
   password : {None, Some(<<"p">>)},
   apiToken : {None, Some(<<>>), Some(<<"t", "k">>)}]

\* baseUrl.replace(/\/$/, ''): one trailing slash is removed.
StripTrailingSlash(s) ==
  IF Len(s) > 0 /\ s[Len(s)] = "/" THEN SubSeq(s, 1, Len(s) - 1) ELSE s

Timeout == 30000

\* new MediaWikiClient(config)
NewClient(cfg) ==
  [baseUrl     |-> StripTrailingSlash(cfg.baseUrl),
   apiEndpoint |-> StripTrailingSlash(cfg.baseUrl) \o <<"/api.php">>,
   timeout     |-> Timeout,
   headers     |-> [UserAgent     |-> "MediaWiki-MCP/1.0.0",
                    Accept        |-> "application/json",
                    Authorization |->
                      IF IsSome(cfg.apiToken) /\ Len(Get(cfg.apiToken)) > 0
                      THEN Some(<<"Bearer ">> \o Get(cfg.apiToken))
                      ELSE None]]

(* ---------------------------- pure helpers ----------------------------- *)

\* title.replace(/ /g, '_')
SpacesToUnderscores(s) == [k \in 1..Len(s) |-> IF s[k] = " " THEN "_" ELSE s[k]]

\* Characters encodeURIComponent leaves alone (those of the model's alphabet).
Unreserved ==
  {"A", "B", "C", "F", "M", "P", "a", "e", "g", "i", "n", "o", "r", "t", "y",
   "h", "w", "u", "p", "k", "x", "0", "1", "2", "3", "4", "5", "6", "7", "8",
   "9", "_", "-", "."}

\* encodeURIComponent on one character: %XX of its UTF-8 bytes.
EncodeChar(c) ==
  IF c \in Unreserved THEN <<c>>
  ELSE IF c = " " THEN <<"%", "2", "0">>
  ELSE IF c = "+" THEN <<"%", "2", "B">>
  ELSE IF c = "%" THEN <<"%", "2", "5">>
  ELSE IF c = ":" THEN <<"%", "3", "A">>
  ELSE IF c = "/" THEN <<"%", "2", "F">>
  ELSE IF c = "<" THEN <<"%", "3", "C">>
  ELSE IF c = ">" THEN <<"%", "3", "E">>
  ELSE <<"%", "3", "F">>  \* "?"

EncodeURIComponent(s) == Concat([k \in 1..Len(s) |-> EncodeChar(s[k])])

\* Mutant: the title is percent-encoded without replacing the spaces first.
GetPageUrlNoUnderscore(c, title) ==
  c.baseUrl \o <<"/index.php/">> \o EncodeURIComponent(title)

\* client.getPageUrl(title)
GetPageUrl(c, title) ==
  c.baseUrl \o <<"/index.php/">> \o EncodeURIComponent(SpacesToUnderscores(title))

\* client.formatTimestamp(timestamp): toLocaleString('en-US', ...) of the
\* date; a string that is no date renders as "Invalid Date".
FormatTimestamp(ts) ==
  IF ts = <<"2024-01-15T10:30:00Z">> THEN <<"Jan 15, 2024, 10:30 AM">>
  ELSE IF ts = <<"2023-12-31T23:59:00Z">> THEN <<"Dec 31, 2023, 11:59 PM">>
  ELSE <<"Invalid Date">>

(* ---------------------------- remote responses ------------------------- *)

\* The `query` object of a response body; every list is optional.
EmptyQuery ==
  [search |-> None, pages |-> None, allcategories |-> None,
   categorymembers |-> None, recentchanges |-> None, backlinks |-> None]

\* A response body: an optional error object {info}, query and parse.
Body(err, query, parse) == [error |-> err, query |-> query, parse |-> parse]

\* What axios.get settles with.  "ok": 2xx with the body as data;
\* "httperr": a response with a non-2xx status (error.response.data is the
\* body); "neterr": no response at all (timeout, connection refused).
OkResp(body)       == [kind |-> "ok", message |-> <<>>, data |-> body]
HttpErrResp(body)  == [kind |-> "httperr",
                       message |-> <<"Request failed with status code 500">>,
                       data |-> body]
NetErrResp         == [kind |-> "neterr",
                       message |-> <<"timeout of 30000ms exceeded">>,
                       data |-> Body(None, None, None)]

ErrInfo == <<"Unrecognized value for parameter.">>

\* A transport-level success whose body carries an error payload.
EmbeddedError == OkResp(Body(Some([code |-> "badvalue", info |-> ErrInfo]), None, None))

FailResponses ==
  {NetErrResp,
   HttpErrResp(Body(None, None, None)),
   HttpErrResp(Body(Some([code |-> "internal", info |-> ErrInfo]), None, None))}

(* ---------------------------- MediaWikiClient -------------------------- *)

\* The GET request apiRequest hands to axios.
Request(c, params) ==
  [url     |-> c.apiEndpoint,
   timeout |-> c.timeout,
   headers |-> c.headers,
   params  |-> params @@ [format |-> "json", formatversion |-> 2]]

\* apiRequest once axios.get has settled: response.data, or the thrown
\* Error(`MediaWiki API error: ${error.response?.data?.error?.info || error.message}`).
ApiOutcome(resp) ==
  IF resp.kind = "ok"
  THEN [ok |-> TRUE, data |-> resp.data, error |-> <<>>]
  ELSE [ok |-> FALSE, data |-> resp.data,
        error |-> <<"MediaWiki API error: ">> \o
          (IF resp.kind = "httperr" /\ IsSome(resp.data.error)
              /\ Len(Get(resp.data.error).info) > 0
           THEN Get(resp.data.error).info ELSE resp.message)]

\* data.query?.<list>
QueryList(data, key) ==
  IF IsSome(data.query) THEN Get(data.query)[key] ELSE None

SearchPagesParams(query, limit, namespace) ==
  LET params == [action |-> "query", list |-> "search", srsearch |-> query,
                 srlimit |-> limit, srprop |-> "snippet|timestamp|wordcount|size"]
  IN IF IsSome(namespace) THEN params @@ [srnamespace |-> Get(namespace)] ELSE params

SearchPagesResult(data) ==
  LET l == QueryList(data, "search") IN IF IsSome(l) THEN Get(l) ELSE <<>>

GetPageParams(title) ==
  [action |-> "query", titles |-> title, prop |-> "revisions|info|categories",
   rvprop |-> "content|timestamp|user|comment", rvslots |-> "main", rvlimit |-> 1]

\* Mutant: the `missing` flag of the page is not looked at.
GetPageResultIgnoresMissing(data) ==
  LET pages == QueryList(data, "pages") IN
  IF ~IsSome(pages) \/ Len(Get(pages)) = 0 THEN None
  ELSE LET page == Get(pages)[1] IN
    Some([pageid |-> page.pageid, title |-> page.title, content |-> <<>>,
          timestamp |-> <<>>, user |-> <<>>, comment |-> <<>>,
          categories |-> <<>>, size |-> 0])

\* PageContent, or None for null.
GetPageResult(data) ==
  LET pages == QueryList(data, "pages") IN
  IF ~IsSome(pages) \/ Len(Get(pages)) = 0 THEN None
  ELSE LET page == Get(pages)[1] IN
    IF page.missing THEN None
    ELSE LET revision == IF IsSome(page.revisions) /\ Len(Get(page.revisions)) > 0
                         THEN Some(Get(page.revisions)[1]) ELSE None
         IN Some([pageid     |-> page.pageid,
                  title      |-> page.title,
                  content    |-> IF IsSome(revision) /\ IsSome(Get(revision).content)
                                 THEN Get(Get(revision).content) ELSE <<>>,
                  timestamp  |-> IF IsSome(revision) THEN Get(revision).timestamp ELSE <<>>,
                  user       |-> IF IsSome(revision) THEN Get(revision).user ELSE <<>>,
                  comment    |-> IF IsSome(revision) THEN Get(revision).comment ELSE <<>>,
                  categories |-> IF IsSome(page.categories)
                                 THEN [k \in 1..Len(Get(page.categories)) |->
                                         Get(page.categories)[k].title]
                                 ELSE <<>>,
                  size       |-> IF IsSome(page.length) THEN Get(page.length) ELSE 0])

GetParsedPageParams(title) == [action |-> "parse", page |-> title, prop |-> "text"]

GetParsedPageResult(data) ==
  IF IsSome(data.parse) /\ IsSome(Get(data.parse).text)
  THEN Get(Get(data.parse).text) ELSE <<>>

GetPageHistoryParams(title, limit) ==
  [action |-> "query", titles |-> title, prop |-> "revisions", rvlimit |-> limit,
   rvprop |-> "ids|timestamp|user|comment|size|flags"]

GetPageHistoryResult(data) ==
  LET pages == QueryList(data, "pages") IN
  IF ~IsSome(pages) \/ Len(Get(pages)) = 0 THEN <<>>
  ELSE LET page == Get(pages)[1] IN
    IF IsSome(page.revisions) THEN Get(page.revisions) ELSE <<>>

ListCategoriesParams(prefix, limit) ==
  LET params == [action |-> "query", list |-> "allcategories", aclimit |-> limit,
                 acprop |-> "size"]
  IN IF IsSome(prefix) /\ Len(Get(prefix)) > 0
     THEN params @@ [acprefix |-> Get(prefix)] ELSE params

ListCategoriesResult(data) ==
  LET l == QueryList(data, "allcategories") IN IF IsSome(l) THEN Get(l) ELSE <<>>

\* Mutant: the prefix is prepended whether or not it is already there.
CategoryTitleAlwaysPrefixes(category) == CategoryPrefix \o category

\* category.startsWith('Category:') ? category : `Category:${category}`
CategoryTitle(category) ==
  IF StartsWith(category, CategoryPrefix) THEN category
  ELSE CategoryPrefix \o category

GetCategoryMembersParams(category, limit, type) ==
  LET params == [action |-> "query", list |-> "categorymembers",
                 cmtitle |-> CategoryTitle(category), cmlimit |-> limit,
                 cmprop |-> "ids|title|timestamp"]
  IN IF IsSome(type) /\ Len(Get(type)) > 0 THEN params @@ [cmtype |-> Get(type)] ELSE params

GetCategoryMembersResult(data) ==
  LET l == QueryList(data, "categorymembers") IN IF IsSome(l) THEN Get(l) ELSE <<>>

GetRecentChangesParams(limit, namespace, type) ==
  LET p0 == [action |-> "query", list |-> "recentchanges", rclimit |-> limit,
             rcprop |-> "title|ids|sizes|flags|user|timestamp|comment"]
      p1 == IF IsSome(namespace) THEN p0 @@ [rcnamespace |-> Get(namespace)] ELSE p0
  IN IF IsSome(type) /\ Len(Get(type)) > 0 THEN p1 @@ [rctype |-> Get(type)] ELSE p1

GetRecentChangesResult(data) ==
  LET l == QueryList(data, "recentchanges") IN IF IsSome(l) THEN Get(l) ELSE <<>>

GetPageLinksParams(title, limit) ==
  [action |-> "query", titles |-> title, prop |-> "links", pllimit |-> limit]

GetPageLinksResult(data) ==
  LET pages == QueryList(data, "pages") IN
  IF ~IsSome(pages) \/ Len(Get(pages)) = 0 THEN <<>>
  ELSE LET page == Get(pages)[1] IN
    IF IsSome(page.links)
    THEN [k \in 1..Len(Get(page.links)) |-> Get(page.links)[k].title]
    ELSE <<>>

GetBacklinksParams(title, limit) ==
  [action |-> "query", list |-> "backlinks", bltitle |-> title, bllimit |-> limit]

GetBacklinksResult(data) ==
  LET l == QueryList(data, "backlinks") IN
  IF IsSome(l) THEN [k \in 1..Len(Get(l)) |-> Get(l)[k].title] ELSE <<>>

(* ---------------------------- input schemas ---------------------------- *)

\* A raw argument as the caller sent it: absent, or a JSON string, number
\* or boolean.
AbsentArg  == [k |-> "absent",  s |-> <<>>, n |-> 0, b |-> FALSE]
StrArg(x)  == [k |-> "string",  s |-> x,    n |-> 0, b |-> FALSE]
NumArg(x)  == [k |-> "number",  s |-> <<>>, n |-> x, b |-> FALSE]
BoolArg(x) == [k |-> "boolean", s |-> <<>>, n |-> 0, b |-> x]

Fields == {"query", "title", "limit", "namespace", "include_html", "prefix",
           "category", "type", "direction"}

\* The arguments object of a call: the fields of f, every other one absent.
Args(f) == [x \in Fields |-> IF x \in DOMAIN f THEN f[x] ELSE AbsentArg]

\* z.string()
ZString(a) == [ok |-> a.k = "string", v |-> a.s]
\* z.string().optional()
ZStringOpt(a) ==
  [ok |-> a.k \in {"absent", "string"},
   v  |-> IF a.k = "string" THEN Some(a.s) ELSE None]
\* z.number().optional().default(d)
ZNumberDefault(a, d) ==
  [ok |-> a.k \in {"absent", "number"}, v |-> IF a.k = "number" THEN a.n ELSE d]
\* z.number().optional()
ZNumberOpt(a) ==
  [ok |-> a.k \in {"absent", "number"},
   v  |-> IF a.k = "number" THEN Some(a.n) ELSE None]
\* z.boolean().optional().default(d)
ZBooleanDefault(a, d) ==
  [ok |-> a.k \in {"absent", "boolean"}, v |-> IF a.k = "boolean" THEN a.b ELSE d]
\* z.enum(values).optional()
ZEnumOpt(a, values) ==
  [ok |-> a.k = "absent" \/ (a.k = "string" /\ a.s \in values),
   v  |-> IF a.k = "string" THEN Some(a.s) ELSE None]
\* z.enum(values).default(d)
ZEnumDefault(a, values, d) ==
  [ok |-> a.k = "absent" \/ (a.k = "string" /\ a.s \in values),
   v  |-> IF a.k = "string" THEN a.s ELSE d]

MemberTypes == {<<"page">>, <<"subcat">>, <<"file">>}
ChangeTypes == {<<"e", "d", "i", "t">>, <<"n", "e", "w">>, <<"l", "o", "g">>}
Directions  == {<<"from">>, <<"to">>}

Schema_search_pages(args) ==
  LET q == ZString(args.query)
      l == ZNumberDefault(args.limit, 10)
      n == ZNumberOpt(args.namespace)
  IN [ok |-> q.ok /\ l.ok /\ n.ok,
      a  |-> [query |-> q.v, limit |-> l.v, namespace |-> n.v]]

Schema_get_page(args) ==
  LET t == ZString(args.title)
      h == ZBooleanDefault(args.include_html, FALSE)
  IN [ok |-> t.ok /\ h.ok, a |-> [title |-> t.v, include_html |-> h.v]]

Schema_get_page_history(args) ==
  LET t == ZString(args.title)
      l == ZNumberDefault(args.limit, 20)
  IN [ok |-> t.ok /\ l.ok, a |-> [title |-> t.v, limit |-> l.v]]

Schema_list_categories(args) ==
  LET p == ZStringOpt(args.prefix)
      l == ZNumberDefault(args.limit, 20)
  IN [ok |-> p.ok /\ l.ok, a |-> [prefix |-> p.v, limit |-> l.v]]

Schema_get_category_members(args) ==
  LET c == ZString(args.category)
      l == ZNumberDefault(args.limit, 50)
      t == ZEnumOpt(args.type, MemberTypes)
  IN [ok |-> c.ok /\ l.ok /\ t.ok,
      a  |-> [category |-> c.v, limit |-> l.v, type |-> t.v]]

\* Mutant: the change type is declared a free string instead of an enum.
Schema_get_recent_changes_AnyType(args) ==
  LET l == ZNumberDefault(args.limit, 20)
      n == ZNumberOpt(args.namespace)
      t == ZStringOpt(args.type)
  IN [ok |-> l.ok /\ n.ok /\ t.ok,
      a  |-> [limit |-> l.v, namespace |-> n.v, type |-> t.v]]

Schema_get_recent_changes(args) ==
  LET l == ZNumberDefault(args.limit, 20)
      n == ZNumberOpt(args.namespace)
      t == ZEnumOpt(args.type, ChangeTypes)
  IN [ok |-> l.ok /\ n.ok /\ t.ok,
      a  |-> [limit |-> l.v, namespace |-> n.v, type |-> t.v]]

\* Mutant: an omitted direction defaults to "to".
Schema_get_page_links_DefaultTo(args) ==
  LET t == ZString(args.title)
      d == ZEnumDefault(args.direction, Directions, <<"to">>)
      l == ZNumberDefault(args.limit, 50)
  IN [ok |-> t.ok /\ d.ok /\ l.ok,
      a  |-> [title |-> t.v, direction |-> d.v, limit |-> l.v]]

Schema_get_page_links(args) ==
  LET t == ZString(args.title)
      d == ZEnumDefault(args.direction, Directions, <<"from">>)
      l == ZNumberDefault(args.limit, 50)
  IN [ok |-> t.ok /\ d.ok /\ l.ok,
      a  |-> [title |-> t.v, direction |-> d.v, limit |-> l.v]]

(* ---------------------------- tool results ----------------------------- *)

\* { content: [{ type: "text", text }] }
TextResult(text) == [kind |-> "text", text |-> text]
\* The handler threw: the invocation ends as an error result with the message.
ErrorResult(msg) == [kind |-> "error", text |-> msg]
\* The arguments did not pass the input schema: the handler never ran.
InvalidResult    == [kind |-> "invalid", text |-> <<>>]

\* s || fallback, for a string s
OrElse(s, fallback) == IF Len(s) > 0 THEN s ELSE fallback

\* parts.join(sep)
RECURSIVE Join(_, _)
Join(parts, sep) ==
  IF Len(parts) = 0 THEN <<>>
  ELSE IF Len(parts) = 1 THEN parts[1]
  ELSE parts[1] \o sep \o Join(Tail(parts), sep)

\* First k with s[k] = c, or 0.
IndexOf(s, c) ==
  IF \E k \in 1..Len(s) : s[k] = c
  THEN CHOOSE k \in 1..Len(s) : s[k] = c /\ \A j \in 1..(k - 1) : s[j] # c
  ELSE 0

\* Mutant: replace without the g flag, only the first tag goes.
StripTagsFirstOnly(s) ==
  LET opens == {i \in 1..Len(s) : s[i] = "<" /\ \E j \in (i + 1)..Len(s) : s[j] = ">"}
  IN IF opens = {} THEN s
     ELSE LET i == CHOOSE x \in opens : \A y \in opens : x <= y
              j == CHOOSE x \in (i + 1)..Len(s) :
                     s[x] = ">" /\ \A y \in (i + 1)..(x - 1) : s[y] # ">"
          IN SubSeq(s, 1, i - 1) \o SubSeq(s, j + 1, Len(s))

\* snippet.replace(/<[^>]*>/g, '')
RECURSIVE StripTags(_)
StripTags(s) ==
  IF Len(s) = 0 THEN <<>>
  ELSE IF Head(s) = "<" /\ IndexOf(Tail(s), ">") > 0
       THEN StripTags(SubSeq(s, IndexOf(Tail(s), ">") + 2, Len(s)))
       ELSE <<Head(s)>> \o StripTags(Tail(s))

\* c.toUpperCase() on one character
UpperChar(c) ==
  CASE c = "a" -> "A" [] c = "d" -> "D" [] c = "e" -> "E" [] c = "g" -> "G"
    [] c = "i" -> "I" [] c = "l" -> "L" [] c = "n" -> "N" [] c = "o" -> "O"
    [] c = "t" -> "T" [] c = "w" -> "W" [] OTHER -> c

ToUpperCase(s) == [k \in 1..Len(s) |-> UpperChar(s[k])]

(* search_pages *)
SearchEntry(c, result, index) ==
  NumStr(index) \o <<". **">> \o result.title \o <<"**\n">>
  \o <<"   URL: ">> \o GetPageUrl(c, result.title) \o <<"\n">>
  \o <<"   Snippet: ">> \o StripTags(result.snippet) \o <<"\n">>
  \o <<"   Size: ">> \o NumStr(result.size) \o <<" bytes | Words: ">>
  \o NumStr(result.wordcount) \o <<" | Modified: ">>
  \o FormatTimestamp(result.timestamp) \o <<"\n\n">>

SearchResultOf(c, a, results) ==
  IF Len(results) = 0
  THEN TextResult(<<"No results found for \"">> \o a.query \o <<"\"">>)
  ELSE TextResult(
         <<"Found ">> \o NumStr(Len(results)) \o <<" results for \"">> \o a.query
         \o <<"\":\n\n">>
         \o Concat([k \in 1..Len(results) |-> SearchEntry(c, results[k], k)]))

(* get_page *)
PageNotFound(a) == TextResult(<<"Page \"">> \o a.title \o <<"\" not found">>)

PageResultOf(c, page, content) ==
  TextResult(
    <<"# Page: ">> \o page.title \o <<"\n">>
    \o <<"URL: ">> \o GetPageUrl(c, page.title) \o <<"\n\n">>
    \o <<"## Metadata\n">>
    \o <<"- Page ID: ">> \o NumStr(page.pageid) \o <<"\n">>
    \o <<"- Last Modified: ">> \o FormatTimestamp(page.timestamp) \o <<" by ">>
    \o page.user \o <<"\n">>
    \o <<"- Categories: ">> \o OrElse(Join(page.categories, <<", ">>), <<"None">>)
    \o <<"\n">>
    \o <<"- Size: ">> \o NumStr(page.size) \o <<" bytes\n">>
    \o <<"- Comment: ">> \o OrElse(page.comment, <<"No comment">>) \o <<"\n\n">>
    \o <<"## Content\n\n">> \o content)

(* get_page_history *)
\* Mutant: the delta is taken against the next-newer side (sign flipped).
HistorySizeDiffFlipped(revisions, index) ==
  IF index < Len(revisions)
  THEN revisions[index + 1].size - revisions[index].size
  ELSE 0

\* index is 1-based here; the code's 0-based index is index - 1.
HistorySizeDiff(revisions, index) ==
  IF index < Len(revisions)
  THEN revisions[index].size - revisions[index + 1].size
  ELSE 0

HistoryDiffText(sizeDiff) ==
  IF sizeDiff > 0 THEN <<"(+">> \o NumStr(sizeDiff) \o <<")">>
  ELSE IF sizeDiff < 0 THEN <<"(">> \o NumStr(sizeDiff) \o <<")">>
  ELSE <<>>

HistoryEntry(revisions, index) ==
  LET rev == revisions[index] IN
  NumStr(index) \o <<". [Revision ">> \o NumStr(rev.revid) \o <<"] ">>
  \o FormatTimestamp(rev.timestamp)
  \o (IF rev.minor THEN <<" (minor)">> ELSE <<>>) \o <<"\n">>
  \o <<"   By: ">> \o rev.user \o <<"\n">>
  \o <<"   Comment: ">> \o OrElse(rev.comment, <<"No comment">>) \o <<"\n">>
  \o <<"   Size: ">> \o NumStr(rev.size) \o <<" bytes ">>
  \o HistoryDiffText(HistorySizeDiff(revisions, index)) \o <<"\n\n">>

HistoryResultOf(a, revisions) ==
  IF Len(revisions) = 0
  THEN TextResult(<<"No revision history found for \"">> \o a.title \o <<"\"">>)
  ELSE TextResult(
         <<"# Revision History: ">> \o a.title \o <<"\n\n## Recent Changes\n\n">>
         \o Concat([k \in 1..Len(revisions) |-> HistoryEntry(revisions, k)]))

(* list_categories *)
CategoryEntry(c, cat, index) ==
  NumStr(index) \o <<". **">> \o cat.category \o <<"** (">> \o NumStr(cat.size)
  \o <<" total members)\n">>
  \o <<"   URL: ">> \o GetPageUrl(c, CategoryPrefix \o cat.category) \o <<"\n">>
  \o <<"   Pages: ">> \o NumStr(cat.pages) \o <<" | Files: ">> \o NumStr(cat.files)
  \o <<" | Subcategories: ">> \o NumStr(cat.subcats) \o <<"\n\n">>

HasPrefix(a) == IsSome(a.prefix) /\ Len(Get(a.prefix)) > 0

CategoriesResultOf(c, a, categories) ==
  IF Len(categories) = 0
  THEN TextResult(IF HasPrefix(a)
                  THEN <<"No categories found starting with \"">> \o Get(a.prefix)
                       \o <<"\"">>
                  ELSE <<"No categories found">>)
  ELSE TextResult(
         <<"# Wiki Categories">>
         \o (IF HasPrefix(a) THEN <<" (prefix: \"">> \o Get(a.prefix) \o <<"\")">>
             ELSE <<>>)
         \o <<"\n\n">>
         \o Concat([k \in 1..Len(categories) |-> CategoryEntry(c, categories[k], k)]))

(* get_category_members *)
MemberEntry(c, member, index) ==
  NumStr(index) \o <<". **">> \o member.title \o <<"**\n">>
  \o <<"   URL: ">> \o GetPageUrl(c, member.title) \o <<"\n">>
  \o <<"   Last modified: ">> \o FormatTimestamp(member.timestamp) \o <<"\n\n">>

MembersHeading(category) ==
  <<"# Category: ">>
  \o (IF StartsWith(category, CategoryPrefix) THEN category
      ELSE CategoryPrefix \o category)
  \o <<"\n">>

MembersResultOf(c, a, members) ==
  IF Len(members) = 0
  THEN TextResult(<<"No members found in category \"">> \o a.category \o <<"\"">>)
  ELSE TextResult(
         MembersHeading(a.category)
         \o <<"Total members: ">> \o NumStr(Len(members))
         \o (IF IsSome(a.type) /\ Len(Get(a.type)) > 0
             THEN <<" (type: ">> \o Get(a.type) \o <<")">> ELSE <<>>)
         \o <<"\n\n">> \o <<"## Members\n\n">>
         \o Concat([k \in 1..Len(members) |-> MemberEntry(c, members[k], k)]))

(* get_recent_changes *)
\* Mutant: the delta is oldlen - newlen.
ChangeSizeDiffFlipped(change) == JsSub(change.oldlen, change.newlen)

ChangeSizeDiff(change) == JsSub(change.newlen, change.oldlen)

ChangeDiffText(sizeDiff) ==
  IF JsGt0(sizeDiff) THEN <<"+">> \o JsNumStr(sizeDiff) ELSE JsNumStr(sizeDiff)

ChangeEntry(c, change, index) ==
  NumStr(index) \o <<". [">> \o ToUpperCase(change.type) \o <<"] **">>
  \o change.title \o <<"** - ">> \o FormatTimestamp(change.timestamp) \o <<"\n">>
  \o <<"   By: ">> \o change.user \o <<"\n">>
  \o <<"   Comment: ">> \o OrElse(change.comment, <<"No comment">>) \o <<"\n">>
  \o <<"   Size change: ">> \o ChangeDiffText(ChangeSizeDiff(change))
  \o <<" bytes\n">>
  \o <<"   URL: ">> \o GetPageUrl(c, change.title) \o <<"\n\n">>

ChangesResultOf(c, changes) ==
  IF Len(changes) = 0
  THEN TextResult(<<"No recent changes found">>)
  ELSE TextResult(
         <<"# Recent Changes\n\n">>
         \o Concat([k \in 1..Len(changes) |-> ChangeEntry(c, changes[k], k)]))

(* get_page_links *)
LinkEntry(c, link, index) ==
  NumStr(index) \o <<". **">> \o link \o <<"**\n">>
  \o <<"   URL: ">> \o GetPageUrl(c, link) \o <<"\n\n">>

LinksResultOf(c, a, links) ==
  IF Len(links) = 0
  THEN TextResult(IF a.direction = <<"from">>
                  THEN <<"No outgoing links found from \"">> \o a.title \o <<"\"">>
                  ELSE <<"No backlinks found to \"">> \o a.title \o <<"\"">>)
  ELSE TextResult(
         (IF a.direction = <<"from">>
          THEN <<"# Links from: ">> \o a.title \o <<"\n\nFound ">>
               \o NumStr(Len(links)) \o <<" outgoing links:\n\n">>
          ELSE <<"# Links to: ">> \o a.title \o <<"\n\nFound ">>
               \o NumStr(Len(links)) \o <<" backlinks:\n\n">>)
         \o Concat([k \in 1..Len(links) |-> LinkEntry(c, links[k], k)]))

(* ---------------------------- invocations ------------------------------ *)

NoArgs == [x \in Fields |-> AbsentArg]

\* A slot with no invocation in it.
IdleSlot ==
  [pc |-> "idle", tool |-> "", args |-> NoArgs, a |-> <<>>, op |-> "",
   reqs |-> <<>>, resps |-> <<>>, page |-> None,
   result |-> [kind |-> "none", text |-> <<>>]]

Slots == 1..MaxInv

\* The handler returned or threw: the invocation is answered.
Done(s, result) == [s EXCEPT !.pc = "done", !.op = "", !.result = result]

\* A client operation awaits apiRequest(params): one GET is issued.
Await(c, s, op, params) ==
  [s EXCEPT !.pc = "await", !.op = op, !.reqs = Append(@, Request(c, params))]

Schema(tool, args) ==
  CASE tool = "search_pages"         -> Schema_search_pages(args)
    [] tool = "get_page"             -> Schema_get_page(args)
    [] tool = "get_page_history"     -> Schema_get_page_history(args)
    [] tool = "list_categories"      -> Schema_list_categories(args)
    [] tool = "get_category_members" -> Schema_get_category_members(args)
    [] tool = "get_recent_changes"   -> Schema_get_recent_changes(args)
    [] tool = "get_page_links"       -> Schema_get_page_links(args)

\* The first await of each handler.
FirstCall(c, s) ==
  LET a == s.a IN
  CASE s.tool = "search_pages" ->
         Await(c, s, "searchPages", SearchPagesParams(a.query, a.limit, a.namespace))
    [] s.tool = "get_page" ->
         Await(c, s, "getPage", GetPageParams(a.title))
    [] s.tool = "get_page_history" ->
         Await(c, s, "getPageHistory", GetPageHistoryParams(a.title, a.limit))
    [] s.tool = "list_categories" ->
         Await(c, s, "listCategories", ListCategoriesParams(a.prefix, a.limit))
    [] s.tool = "get_category_members" ->
         Await(c, s, "getCategoryMembers",
               GetCategoryMembersParams(a.category, a.limit, a.type))
    [] s.tool = "get_recent_changes" ->
         Await(c, s, "getRecentChanges",
               GetRecentChangesParams(a.limit, a.namespace, a.type))
    [] s.tool = "get_page_links" ->
         IF a.direction = <<"from">>
         THEN Await(c, s, "getPageLinks", GetPageLinksParams(a.title, a.limit))
         ELSE Await(c, s, "getBacklinks", GetBacklinksParams(a.title, a.limit))

\* registerTool(name, {inputSchema}, handler): the arguments are parsed
\* against the schema; the handler runs on the parsed value only.
Started(c, tool, args) ==
  LET p == Schema(tool, args)
      s == [IdleSlot EXCEPT !.tool = tool, !.args = args]
  IN IF ~p.ok THEN Done(s, InvalidResult)
     ELSE FirstCall(c, [s EXCEPT !.a = p.a])

\* Mutant: get_page fetches the rendered HTML of every existing page,
\* whatever include_html is.
ResumedAlwaysParses(c, s, data) ==
  LET a == s.a IN
  CASE s.op = "searchPages" ->
         Done(s, SearchResultOf(c, a, SearchPagesResult(data)))
    [] s.op = "getPage" ->
         LET page == GetPageResult(data) IN
         IF ~IsSome(page) THEN Done(s, PageNotFound(a))
         ELSE Await(c, [s EXCEPT !.page = page], "getParsedPage",
                    GetParsedPageParams(a.title))
    [] s.op = "getParsedPage" ->
         Done(s, PageResultOf(c, Get(s.page), GetParsedPageResult(data)))
    [] s.op = "getPageHistory" ->
         Done(s, HistoryResultOf(a, GetPageHistoryResult(data)))
    [] s.op = "listCategories" ->
         Done(s, CategoriesResultOf(c, a, ListCategoriesResult(data)))
    [] s.op = "getCategoryMembers" ->
         Done(s, MembersResultOf(c, a, GetCategoryMembersResult(data)))
    [] s.op = "getRecentChanges" ->
         Done(s, ChangesResultOf(c, GetRecentChangesResult(data)))
    [] s.op = "getPageLinks" ->
         Done(s, LinksResultOf(c, a, GetPageLinksResult(data)))
    [] s.op = "getBacklinks" ->
         Done(s, LinksResultOf(c, a, GetBacklinksResult(data)))

\* The awaited client operation returned `data`: the rest of the handler.
Resumed(c, s, data) ==
  LET a == s.a IN
  CASE s.op = "searchPages" ->
         Done(s, SearchResultOf(c, a, SearchPagesResult(data)))
    [] s.op = "getPage" ->
         LET page == GetPageResult(data) IN
         IF ~IsSome(page) THEN Done(s, PageNotFound(a))
         ELSE IF a.include_html
         THEN Await(c, [s EXCEPT !.page = page], "getParsedPage",
                    GetParsedPageParams(a.title))
         ELSE Done(s, PageResultOf(c, Get(page), Get(page).content))
    [] s.op = "getParsedPage" ->
         Done(s, PageResultOf(c, Get(s.page), GetParsedPageResult(data)))
    [] s.op = "getPageHistory" ->
         Done(s, HistoryResultOf(a, GetPageHistoryResult(data)))
    [] s.op = "listCategories" ->
         Done(s, CategoriesResultOf(c, a, ListCategoriesResult(data)))
    [] s.op = "getCategoryMembers" ->
         Done(s, MembersResultOf(c, a, GetCategoryMembersResult(data)))
    [] s.op = "getRecentChanges" ->
         Done(s, ChangesResultOf(c, GetRecentChangesResult(data)))
    [] s.op = "getPageLinks" ->
         Done(s, LinksResultOf(c, a, GetPageLinksResult(data)))
    [] s.op = "getBacklinks" ->
         Done(s, LinksResultOf(c, a, GetBacklinksResult(data)))

\* Mutant: the failed GET is issued once more instead of failing the call.
RejectedRetries(c, s, error) ==
  [s EXCEPT !.reqs = Append(@, s.reqs[Len(s.reqs)])]

\* apiRequest threw: no client operation and no handler catches, so the
\* invocation ends as an error result carrying the message.
Rejected(c, s, error) == Done(s, ErrorResult(error))

\* axios.get settled with resp for the request slot s is waiting on.
Settled(c, s, resp) ==
  LET o  == ApiOutcome(resp)
      s1 == [s EXCEPT !.resps = Append(@, resp)]
  IN IF o.ok THEN Resumed(c, s1, o.data) ELSE Rejected(c, s1, o.error)

(* ---------------------------- sample data ------------------------------ *)

TitleAB == <<"A", " ", "B">>
TitleCpp == <<"C", "+", "+">>
Stamp1 == <<"2024-01-15T10:30:00Z">>
Stamp2 == <<"2023-12-31T23:59:00Z">>

Hit1 == [title |-> TitleAB, pageid |-> 1, wordcount |-> 12, size |-> 420,
         snippet |-> <<"<", "b", ">", "h", "i", "<", "/", "b", ">", " ", "x">>,
         timestamp |-> Stamp1]
Hit2 == [title |-> TitleCpp, pageid |-> 2, wordcount |-> 3, size |-> 80,
         snippet |-> <<"a", "<", "b">>, timestamp |-> Stamp2]

Rev(id, size, minor, comment, content) ==
  [revid |-> id, timestamp |-> Stamp1, user |-> <<"u">>, comment |-> comment,
   size |-> size, minor |-> minor, content |-> content]

Page(missing, revisions, categories, links, length) ==
  [missing |-> missing, pageid |-> 7, title |-> TitleAB, length |-> length,
   revisions |-> revisions, categories |-> categories, links |-> links]

MissingPage == Page(TRUE, None, None, None, None)

Change(type, oldlen, newlen) ==
  [type |-> type, title |-> TitleAB, user |-> <<"u">>, timestamp |-> Stamp1,
   comment |-> <<>>, oldlen |-> oldlen, newlen |-> newlen]

OkQuery(key, list) ==
  OkResp(Body(None, Some([EmptyQuery EXCEPT ![key] = Some(list)]), None))

\* Responses any operation may get: the failures, an error payload in a 2xx
\* body, a body without `query`, a `query` without the list asked for.
CommonResponses ==
  FailResponses \cup
  {EmbeddedError, OkResp(Body(None, None, None)),
   OkResp(Body(None, Some(EmptyQuery), None))}

DataResponses(op) ==
  CASE op = "searchPages" ->
         {OkQuery("search", <<>>), OkQuery("search", <<Hit1>>),
          OkQuery("search", <<Hit1, Hit2>>)}
    [] op = "getPage" ->
         {OkQuery("pages", <<>>), OkQuery("pages", <<MissingPage>>),
          OkQuery("pages", <<Page(FALSE, None, None, None, None)>>),
          OkQuery("pages", <<Page(FALSE,
             Some(<<Rev(9, 420, FALSE, <<"f", "i", "x">>, Some(<<"t", "e", "x", "t">>))>>),
             Some(<<[title |-> CategoryPrefix \o <<"F">>],
                    [title |-> CategoryPrefix \o <<"G">>]>>),
             None, Some(420))>>)}
    [] op = "getParsedPage" ->
         {OkResp(Body(None, None, Some([text |-> None]))),
          OkResp(Body(None, None, Some([text |-> Some(<<"<", "p", ">", "x">>)])))}
    [] op = "getPageHistory" ->
         {OkQuery("pages", <<>>), OkQuery("pages", <<MissingPage>>),
          OkQuery("pages", <<Page(FALSE, Some(<<>>), None, None, None)>>),
          OkQuery("pages", <<Page(FALSE, Some(<<Rev(3, 80, TRUE, <<>>, None)>>),
                                  None, None, None)>>),
          OkQuery("pages", <<Page(FALSE,
             Some(<<Rev(3, 500, FALSE, <<"c">>, None), Rev(2, 420, TRUE, <<>>, None),
                    Rev(1, 420, FALSE, <<>>, None)>>), None, None, None)>>)}
    [] op = "listCategories" ->
         {OkQuery("allcategories", <<>>),
          OkQuery("allcategories",
                  <<[category |-> <<"F">>, size |-> 3, pages |-> 2, files |-> 1,
                     subcats |-> 0]>>)}
    [] op = "getCategoryMembers" ->
         {OkQuery("categorymembers", <<>>),
          OkQuery("categorymembers",
                  <<[pageid |-> 1, title |-> TitleAB, timestamp |-> Stamp1]>>)}
    [] op = "getRecentChanges" ->
         {OkQuery("recentchanges", <<>>),
          OkQuery("recentchanges",
                  <<Change(<<"e", "d", "i", "t">>, Some(100), Some(80))>>),
          OkQuery("recentchanges",
                  <<Change(<<"n", "e", "w">>, Some(0), Some(150)),
                    Change(<<"l", "o", "g">>, None, None)>>)}
    [] op = "getPageLinks" ->
         {OkQuery("pages", <<>>), OkQuery("pages", <<MissingPage>>),
          OkQuery("pages", <<Page(FALSE, None, None, Some(<<>>), None)>>),
          OkQuery("pages", <<Page(FALSE, None, None,
                                  Some(<<[title |-> TitleCpp], [title |-> TitleAB]>>),
                                  None)>>)}
    [] op = "getBacklinks" ->
         {OkQuery("backlinks", <<>>), OkQuery("backlinks", <<[title |-> TitleCpp]>>)}
    [] OTHER -> {}

Responses(op) == IF op = "" THEN {} ELSE CommonResponses \cup DataResponses(op)

\* Arguments a caller may send to each tool: in and out of contract.
Inputs_search_pages ==
  {Args([query |-> StrArg(TitleAB)]),
   Args([query |-> StrArg(TitleAB), limit |-> NumArg(5), namespace |-> NumArg(0)]),
   Args([limit |-> NumArg(5)]),
   Args([query |-> NumArg(1)]),
   Args([query |-> StrArg(TitleAB), limit |-> StrArg(<<"5">>)]),
   Args([query |-> StrArg(TitleAB), namespace |-> BoolArg(TRUE)])}

Inputs_get_page ==
  {Args([title |-> StrArg(TitleAB)]),
   Args([title |-> StrArg(TitleAB), include_html |-> BoolArg(TRUE)]),
   Args([title |-> StrArg(TitleAB), include_html |-> BoolArg(FALSE)]),
   Args([include_html |-> BoolArg(TRUE)]),
   Args([title |-> StrArg(TitleAB), include_html |-> StrArg(<<"y">>)])}

Inputs_get_page_history ==
  {Args([title |-> StrArg(TitleAB)]),
   Args([title |-> StrArg(TitleAB), limit |-> NumArg(3)]),
   Args([limit |-> NumArg(3)]),
   Args([title |-> StrArg(TitleAB), limit |-> BoolArg(TRUE)])}

Inputs_list_categories ==
  {Args(<<>>),
   Args([prefix |-> StrArg(<<"F">>), limit |-> NumArg(5)]),
   Args([prefix |-> StrArg(<<>>)]),
   Args([prefix |-> NumArg(1)]),
   Args([limit |-> StrArg(<<"5">>)])}

Inputs_get_category_members ==
  {Args([category |-> StrArg(<<"F">>)]),
   Args([category |-> StrArg(CategoryPrefix \o <<"F">>), limit |-> NumArg(5),
         type |-> StrArg(<<"page">>)]),
   Args([type |-> StrArg(<<"page">>)]),
   Args([category |-> StrArg(<<"F">>), type |-> StrArg(<<"article">>)]),
   Args([category |-> StrArg(<<"F">>), limit |-> StrArg(<<"5">>)])}

Inputs_get_recent_changes ==
  {Args(<<>>),
   Args([limit |-> NumArg(5), namespace |-> NumArg(0),
         type |-> StrArg(<<"e", "d", "i", "t">>)]),
   Args([type |-> StrArg(<<"d", "e", "l">>)]),
   Args([type |-> NumArg(1)]),
   Args([limit |-> StrArg(<<"5">>)]),
   Args([namespace |-> StrArg(<<"0">>)])}

Inputs_get_page_links ==
  {Args([title |-> StrArg(TitleAB)]),
   Args([title |-> StrArg(TitleAB), direction |-> StrArg(<<"from">>)]),
   Args([title |-> StrArg(TitleAB), direction |-> StrArg(<<"to">>),
         limit |-> NumArg(5)]),
   Args([direction |-> StrArg(<<"to">>)]),
   Args([title |-> StrArg(TitleAB), direction |-> StrArg(<<"both">>)]),
   Args([title |-> StrArg(TitleAB), limit |-> StrArg(<<"5">>)])}

(* ---------------------------- actions ---------------------------------- *)

\* The express app of createSSEServer before any request: no connection
\* open, no message posted, nothing replied.
SseIdle == [conns |-> <<>>, posts |-> <<>>, reply |-> <<>>]

PureIdle == [op |-> "none", pc |-> "idle", in |-> <<>>, out |-> <<>>]

\* A caller invokes a tool in slot i with arguments args: one action per
\* registered tool.
search_pages(i, args) ==
  /\ inv[i].pc = "idle"
  /\ inv' = [inv EXCEPT ![i] = Started(client, "search_pages", args)]
  /\ UNCHANGED <<config, client, pure, sse>>

get_page(i, args) ==
  /\ inv[i].pc = "idle"
  /\ inv' = [inv EXCEPT ![i] = Started(client, "get_page", args)]
  /\ UNCHANGED <<config, client, pure, sse>>

get_page_history(i, args) ==
  /\ inv[i].pc = "idle"
  /\ inv' = [inv EXCEPT ![i] = Started(client, "get_page_history", args)]
  /\ UNCHANGED <<config, client, pure, sse>>

list_categories(i, args) ==
  /\ inv[i].pc = "idle"
  /\ inv' = [inv EXCEPT ![i] = Started(client, "list_categories", args)]
  /\ UNCHANGED <<config, client, pure, sse>>

get_category_members(i, args) ==
  /\ inv[i].pc = "idle"
  /\ inv' = [inv EXCEPT ![i] = Started(client, "get_category_members", args)]
  /\ UNCHANGED <<config, client, pure, sse>>

get_recent_changes(i, args) ==
  /\ inv[i].pc = "idle"
  /\ inv' = [inv EXCEPT ![i] = Started(client, "get_recent_changes", args)]
  /\ UNCHANGED <<config, client, pure, sse>>

get_page_links(i, args) ==
  /\ inv[i].pc = "idle"
  /\ inv' = [inv EXCEPT ![i] = Started(client, "get_page_links", args)]
  /\ UNCHANGED <<config, client, pure, sse>>

\* Mutant: the handler's arguments live in one place shared by the slots,
\* so a resumed handler renders with the arguments of another caller.
ApiResponseSharedArgs(i) ==
  /\ inv[i].pc = "await"
  /\ \E resp \in Responses(inv[i].op) :
       LET others == {j \in Slots : j # i /\ inv[j].pc # "idle"
                                    /\ inv[j].tool = inv[i].tool
                                    /\ Schema(inv[j].tool, inv[j].args).ok}
           s == IF others = {} THEN inv[i]
                ELSE [inv[i] EXCEPT !.a = inv[CHOOSE j \in others : TRUE].a]
       IN inv' = [inv EXCEPT ![i] = [Settled(client, s, resp) EXCEPT !.a = inv[i].a]]
  /\ UNCHANGED <<config, client, pure, sse>>

\* The GET slot i is waiting on settles, with any response the remote
\* service or the transport can produce for that operation.
ApiResponse(i) ==
  /\ inv[i].pc = "await"
  /\ \E resp \in Responses(inv[i].op) :
       inv' = [inv EXCEPT ![i] = Settled(client, inv[i], resp)]
  /\ UNCHANGED <<config, client, pure, sse>>

\* The result is sent to the caller; nothing of the invocation is kept.
Return(i) ==
  /\ inv[i].pc = "done"
  /\ inv' = [inv EXCEPT ![i] = IdleSlot]
  /\ UNCHANGED <<config, client, pure, sse>>

Init ==
  /\ config \in Configs
  /\ client = NewClient(config)
  /\ inv = [i \in Slots |-> IdleSlot]
  /\ pure = PureIdle
  /\ sse = SseIdle

\* One invocation at a time (slot 1), every tool, every response.
Next ==
  \/ \E args \in Inputs_search_pages : search_pages(1, args)
  \/ \E args \in Inputs_get_page : get_page(1, args)
  \/ \E args \in Inputs_get_page_history : get_page_history(1, args)
  \/ \E args \in Inputs_list_categories : list_categories(1, args)
  \/ \E args \in Inputs_get_category_members : get_category_members(1, args)
  \/ \E args \in Inputs_get_recent_changes : get_recent_changes(1, args)
  \/ \E args \in Inputs_get_page_links : get_page_links(1, args)
  \/ ApiResponse(1)
  \/ Return(1)

Spec == Init /\ [][Next]_vars

(* ---------------------------- shared client ---------------------------- *)

TokenConfig == [baseUrl |-> <<"h", ":", "/", "/", "w", "/">>, username |-> None,
                password |-> None, apiToken |-> Some(<<"t", "k">>)]

SharedInputs_search_pages ==
  {Args([query |-> StrArg(TitleAB)]), Args([query |-> StrArg(TitleCpp)])}
SharedInputs_get_page ==
  {Args([title |-> StrArg(TitleAB), include_html |-> BoolArg(TRUE)]),
   Args([title |-> StrArg(TitleCpp)])}

InitShared ==
  /\ config = TokenConfig
  /\ client = NewClient(config)
  /\ inv = [i \in Slots |-> IdleSlot]
  /\ pure = PureIdle
  /\ sse = SseIdle

\* Invocations in every slot at once, on the one client (stdio server, or
\* one SSE connection): their requests and responses interleave freely.
NextShared ==
  \E i \in Slots :
    \/ \E args \in SharedInputs_search_pages : search_pages(i, args)
    \/ \E args \in SharedInputs_get_page : get_page(i, args)
    \/ ApiResponse(i)
    \/ Return(i)

SpecShared == InitShared /\ [][NextShared]_vars

(* ---------------------------- pure helpers applied --------------------- *)

SeqsUpTo(S, n) == UNION {[1..k -> S] : k \in 0..n}

UrlAlphabet == {"C", "+", " ", "%", "2", "B", "_", "/"}
TitleMainPage == <<"M", "a", "i", "n", " ", "P", "a", "g", "e">>
PureTitles == SeqsUpTo(UrlAlphabet, MaxLen) \cup {TitleMainPage, TitleCpp}

CatAlphabet == {"F", ":", " "}
CatNames == SeqsUpTo(CatAlphabet, MaxLen)
             \cup {<<"C", "a", "t", "e", "g", "o", "r", "y">>,
                   <<"c", "a", "t", "e", "g", "o", "r", "y", ":", "F">>}
PureCategories ==
  CatNames \cup {CategoryPrefix \o n : n \in CatNames}
           \cup {CategoryPrefix \o CategoryPrefix \o <<"F">>}

SnippetAlphabet == {"<", ">", "b"}
SnippetSpanHello ==
  <<"<", "s", "p", "a", "n", ">", "h", "e", "l", "l", "o",
    "<", "/", "s", "p", "a", "n", ">", " ", "w", "o", "r", "l", "d">>
PureSnippets == SeqsUpTo(SnippetAlphabet, MaxSnippet) \cup {SnippetSpanHello}

PureSizes == {0, 420, 500}
PureRevisions ==
  {[k \in 1..Len(sz) |-> Rev(10 - k, sz[k], FALSE, <<>>, None)] :
     sz \in SeqsUpTo(PureSizes, MaxRevs)}

PureLens == {None, Some(0), Some(80), Some(100), Some(150)}
PureChanges == {Change(t, o, n) : t \in ChangeTypes, o \in PureLens, n \in PureLens}

PureConfigs ==
  {c \in Configs : c.username = None /\ c.password = None /\ c.apiToken = None}

PureReady(op, in) == [op |-> op, pc |-> "ready", in |-> in, out |-> <<>>]

InitPure ==
  /\ config \in PureConfigs
  /\ client = NewClient(config)
  /\ inv = [i \in Slots |-> IdleSlot]
  /\ sse = SseIdle
  /\ \/ \E t \in PureTitles : pure = PureReady("getPageUrl", t)
     \/ \E r \in PureRevisions : pure = PureReady("history", r)
     \/ \E ch \in PureChanges : pure = PureReady("changes", ch)
     \/ \E sn \in PureSnippets : pure = PureReady("snippet", sn)
     \/ \E cat \in PureCategories, limit \in {5, 50}, type \in {None, Some(<<"page">>)} :
          pure = PureReady("getCategoryMembers",
                           [category |-> cat, limit |-> limit, type |-> type])

\* client.getPageUrl(title)
CallGetPageUrl ==
  /\ pure.op = "getPageUrl" /\ pure.pc = "ready"
  /\ pure' = [pure EXCEPT !.pc = "done", !.out = GetPageUrl(client, pure.in)]
  /\ UNCHANGED <<config, client, inv, sse>>

\* The forEach of get_page_history over the returned revisions.
RenderHistory ==
  /\ pure.op = "history" /\ pure.pc = "ready"
  /\ pure' = [pure EXCEPT !.pc = "done",
                          !.out = [k \in 1..Len(pure.in) |-> HistoryEntry(pure.in, k)]]
  /\ UNCHANGED <<config, client, inv, sse>>

\* The forEach body of get_recent_changes on one change.
RenderChange ==
  /\ pure.op = "changes" /\ pure.pc = "ready"
  /\ pure' = [pure EXCEPT !.pc = "done", !.out = ChangeEntry(client, pure.in, 1)]
  /\ UNCHANGED <<config, client, inv, sse>>

\* The forEach body of search_pages on one result with the snippet drawn.
RenderSnippet ==
  /\ pure.op = "snippet" /\ pure.pc = "ready"
  /\ pure' = [pure EXCEPT !.pc = "done",
                          !.out = SearchEntry(client, [Hit1 EXCEPT !.snippet = pure.in], 1)]
  /\ UNCHANGED <<config, client, inv, sse>>

\* getCategoryMembers(category, ...) and getCategoryMembers("Category:" +
\* category, ...) up to the GET each hands to axios, and the heading the
\* tool prints for category.
CallGetCategoryMembers ==
  /\ pure.op = "getCategoryMembers" /\ pure.pc = "ready"
  /\ pure' = [pure EXCEPT
       !.pc = "done",
       !.out = [req |-> Request(client, GetCategoryMembersParams(
                          pure.in.category, pure.in.limit, pure.in.type)),
                reqPrefixed |-> Request(client, GetCategoryMembersParams(
                          CategoryPrefix \o pure.in.category, pure.in.limit,
                          pure.in.type)),
                heading |-> MembersHeading(pure.in.category)]]
  /\ UNCHANGED <<config, client, inv, sse>>

NextPure ==
  \/ CallGetPageUrl
  \/ RenderHistory
  \/ RenderChange
  \/ RenderSnippet
  \/ CallGetCategoryMembers

SpecPure == InitPure /\ [][NextPure]_vars

(* ---------------------------- the two transports ----------------------- *)

\* transport.start() of the SDK on server.connect: the stream opens with
\* the event naming the endpoint messages are to be posted to.
EndpointEvent == [event |-> "endpoint", data |-> <<"/message">>]

\* A tools/call message as a caller posts it.
PostedCalls ==
  {[tool |-> "search_pages", args |-> Args([query |-> StrArg(TitleAB)])],
   [tool |-> "get_page", args |-> Args([title |-> StrArg(TitleCpp)])]}

\* app.get("/health")
GetHealth ==
  /\ sse' = [sse EXCEPT !.reply =
       Some([status |-> 200,
             body |-> <<"{\"status\":\"ok\",\"service\":\"mediawiki-mcp\"}">>])]
  /\ UNCHANGED <<config, client, inv, pure>>

\* app.get("/sse"): a server, a client and a transport of its own for the
\* connection; the transport stays local to this handler.
GetSse ==
  /\ Len(sse.conns) < MaxConns
  /\ sse' = [sse EXCEPT
       !.conns = Append(@, [client |-> NewClient(config),
                            stream |-> <<EndpointEvent>>]),
       !.reply = Some([status |-> 200, body |-> <<"text/event-stream">>])]
  /\ UNCHANGED <<config, client, inv, pure>>

\* app.post("/message") for a message m addressed to connection c: the
\* handler ends the reply with 202 and does nothing else.
PostMessage(c, m) ==
  /\ c <= Len(sse.conns)
  /\ Len(sse.posts) < MaxPosts
  /\ sse' = [sse EXCEPT
       !.posts = Append(@, [conn |-> c, tool |-> m.tool, args |-> m.args]),
       !.reply = Some([status |-> 202, body |-> <<>>])]
  /\ UNCHANGED <<config, client, inv, pure>>

InitChannels ==
  /\ config = TokenConfig
  /\ client = NewClient(config)
  /\ inv = [i \in Slots |-> IdleSlot]
  /\ pure = PureIdle
  /\ sse = SseIdle

\* The stdio server (slot 1 holds the message read from stdin) next to the
\* express app of the SSE server.
NextChannels ==
  \/ \E args \in SharedInputs_search_pages : search_pages(1, args)
  \/ ApiResponse(1)
  \/ Return(1)
  \/ GetHealth
  \/ GetSse
  \/ \E c \in 1..MaxConns, m \in PostedCalls : PostMessage(c, m)

\* The event loop runs every callback that is ready, and the remote GET
\* settles within its timeout.
SpecChannels ==
  /\ InitChannels /\ [][NextChannels]_vars
  /\ WF_vars(NextChannels)
  /\ WF_vars(ApiResponse(1)) /\ WF_vars(Return(1))

(* ======================================================================= *)
(* Claims                                                                  *)
(* ======================================================================= *)

Last(q) == q[Len(q)]

\* The tokens of s strictly between the first a and the first b.
Between(s, a, b) == SubSeq(s, IndexOf(s, a) + 1, IndexOf(s, b) - 1)

\* error.response.data.error.info if the failed response has one, else the
\* transport's own message.
MostSpecificMessage(r) ==
  IF r.kind # "neterr" /\ IsSome(r.data.error) THEN Get(r.data.error).info
  ELSE r.message

\* C1: a 2xx response whose body carries an error payload ends the operation
\* in the uniform failure carrying the remote-reported description; it never
\* yields a normal value.  (The claim as stated; the code violates it.)
C1_EmbeddedErrorFails ==
  \A i \in Slots :
    (/\ inv[i].pc # "idle"
     /\ Len(inv[i].resps) > 0
     /\ Last(inv[i].resps).kind = "ok"
     /\ IsSome(Last(inv[i].resps).data.error))
    => /\ inv[i].pc = "done"
       /\ inv[i].result =
            ErrorResult(<<"MediaWiki API error: ">>
                        \o Get(Last(inv[i].resps).data.error).info)

\* The declared input contract of each tool, field by field.
IsNumberOrAbsent(a) == a.k \in {"absent", "number"}
IsOneOf(a, names) == a.k = "string" /\ Len(a.s) = 1 /\ a.s[1] \in names
IsWord(a, w) == a.k = "string" /\ a.s = w

InContract(tool, args) ==
  CASE tool = "search_pages" ->
         /\ args.query.k = "string"
         /\ IsNumberOrAbsent(args.limit) /\ IsNumberOrAbsent(args.namespace)
    [] tool = "get_page" ->
         args.title.k = "string" /\ args.include_html.k \in {"absent", "boolean"}
    [] tool = "get_page_history" ->
         args.title.k = "string" /\ IsNumberOrAbsent(args.limit)
    [] tool = "list_categories" ->
         args.prefix.k \in {"absent", "string"} /\ IsNumberOrAbsent(args.limit)
    [] tool = "get_category_members" ->
         /\ args.category.k = "string" /\ IsNumberOrAbsent(args.limit)
         /\ (args.type.k = "absent" \/ IsOneOf(args.type, {"page", "subcat", "file"}))
    [] tool = "get_recent_changes" ->
         /\ IsNumberOrAbsent(args.limit) /\ IsNumberOrAbsent(args.namespace)
         /\ \/ args.type.k = "absent"
            \/ IsWord(args.type, <<"e", "d", "i", "t">>)
            \/ IsWord(args.type, <<"n", "e", "w">>)
            \/ IsWord(args.type, <<"l", "o", "g">>)
    [] tool = "get_page_links" ->
         /\ args.title.k = "string" /\ IsNumberOrAbsent(args.limit)
         /\ (args.direction.k = "absent" \/ IsOneOf(args.direction, {"from", "to"}))

\* C2: an invocation whose input is out of the tool's declared contract is
\* rejected as an invocation-level error; no request is ever issued for it
\* and no handler result is produced.
C2_RejectedBeforeAnyCall ==
  \A i \in Slots :
    LET s == inv[i] IN
    /\ (s.pc # "idle" /\ ~InContract(s.tool, s.args))
         => (s.pc = "done" /\ s.result = InvalidResult
             /\ s.reqs = <<>> /\ s.resps = <<>>)
    /\ (s.pc # "idle" /\ s.result.kind = "invalid") => s.reqs = <<>>

\* C2 witness: a limit sent as a string was rejected.
C2_Witness ==
  /\ inv[1].pc = "done" /\ inv[1].tool = "search_pages"
  /\ inv[1].args.query.k = "string"
  /\ inv[1].args.limit.k = "string" /\ inv[1].result.kind = "invalid"

\* C3: one request per client operation, a failed request ends the
\* invocation at once as an error result carrying the failure's message, and
\* nothing is issued after it.
C3_NoRetry ==
  \A i \in Slots :
    LET s == inv[i] IN
    s.pc # "idle" =>
      /\ Len(s.reqs) = Len(s.resps) + (IF s.pc = "await" THEN 1 ELSE 0)
      /\ Len(s.reqs) <= (IF s.tool = "get_page" THEN 2 ELSE 1)
      /\ Len(s.reqs) = 2 =>
           (s.reqs[1].params.action = "query" /\ s.reqs[2].params.action = "parse")
      /\ \A k \in 1..Len(s.resps) :
           s.resps[k].kind # "ok" =>
             /\ k = Len(s.reqs)
             /\ s.pc = "done"
             /\ s.result = ErrorResult(<<"MediaWiki API error: ">>
                                       \o MostSpecificMessage(s.resps[k]))

\* C3 witness: the second request of get_page failed and the invocation
\* ended as an error.
C3_Witness ==
  /\ inv[1].pc = "done" /\ inv[1].tool = "get_page"
  /\ Len(inv[1].resps) = 2 /\ inv[1].resps[2].kind = "neterr"
  /\ inv[1].result.kind = "error"

IsEmptyList(o) == ~IsSome(o) \/ Len(Get(o)) = 0
ListIn(r, key) == IF IsSome(r.data.query) THEN Get(r.data.query)[key] ELSE None

\* The remote call succeeded and found nothing, for the tool's first call.
FoundNothing(tool, args, r) ==
  /\ r.kind = "ok" /\ ~IsSome(r.data.error)
  /\ CASE tool = "search_pages" -> IsEmptyList(ListIn(r, "search"))
       [] tool = "get_page" ->
            IsEmptyList(ListIn(r, "pages")) \/ Get(ListIn(r, "pages"))[1].missing
       [] tool = "get_page_history" ->
            \/ IsEmptyList(ListIn(r, "pages"))
            \/ IsEmptyList(Get(ListIn(r, "pages"))[1].revisions)
       [] tool = "list_categories" -> IsEmptyList(ListIn(r, "allcategories"))
       [] tool = "get_category_members" -> IsEmptyList(ListIn(r, "categorymembers"))
       [] tool = "get_recent_changes" -> IsEmptyList(ListIn(r, "recentchanges"))
       [] tool = "get_page_links" ->
            IF IsWord(args.direction, <<"to">>)
            THEN IsEmptyList(ListIn(r, "backlinks"))
            ELSE \/ IsEmptyList(ListIn(r, "pages"))
                 \/ IsEmptyList(Get(ListIn(r, "pages"))[1].links)

Quoted(lead, s, trail) == <<lead>> \o s \o <<trail>>

\* Each tool's fixed nothing-found text.
NothingFoundText(tool, args) ==
  CASE tool = "search_pages" -> Quoted("No results found for \"", args.query.s, "\"")
    [] tool = "get_page" -> Quoted("Page \"", args.title.s, "\" not found")
    [] tool = "get_page_history" ->
         Quoted("No revision history found for \"", args.title.s, "\"")
    [] tool = "list_categories" ->
         IF args.prefix.k = "string" /\ Len(args.prefix.s) > 0
         THEN Quoted("No categories found starting with \"", args.prefix.s, "\"")
         ELSE <<"No categories found">>
    [] tool = "get_category_members" ->
         Quoted("No members found in category \"", args.category.s, "\"")
    [] tool = "get_recent_changes" -> <<"No recent changes found">>
    [] tool = "get_page_links" ->
         IF IsWord(args.direction, <<"to">>)
         THEN Quoted("No backlinks found to \"", args.title.s, "\"")
         ELSE Quoted("No outgoing links found from \"", args.title.s, "\"")

\* C4: when the remote call succeeds and finds nothing, the invocation ends
\* as a normal text result holding the tool's fixed nothing-found message,
\* after that one request: never an error, never an empty list.
C4_NothingFoundIsText ==
  \A i \in Slots :
    LET s == inv[i] IN
    (s.pc # "idle" /\ Len(s.resps) > 0 /\ FoundNothing(s.tool, s.args, s.resps[1]))
      => /\ s.pc = "done"
         /\ s.result = TextResult(NothingFoundText(s.tool, s.args))
         /\ Len(s.reqs) = 1

\* C4 witness: get_page with include_html on a page the remote service
\* reports missing has rendered the not-found text.
C4_Witness ==
  /\ inv[1].pc = "done" /\ inv[1].tool = "get_page"
  /\ inv[1].args.include_html.b
  /\ Len(inv[1].resps) = 1
  /\ IsSome(ListIn(inv[1].resps[1], "pages"))
  /\ Len(Get(ListIn(inv[1].resps[1], "pages"))) = 1
  /\ Get(ListIn(inv[1].resps[1], "pages"))[1].missing
  /\ inv[1].result.text = <<"Page \"", "A", " ", "B", "\" not found">>

PureDone(op) == pure.op = op /\ pure.pc = "done"

\* What the history entry shows after "<size> bytes ": its delta.
DeltaShown(entry) == SubSeq(entry, IndexOf(entry, " bytes ") + 1, Len(entry) - 1)

\* "(+d)" for d > 0, "(d)" with its minus sign for d < 0, nothing for 0.
DeltaExpected(d) ==
  IF d > 0 THEN <<"(+">> \o NumStr(d) \o <<")">>
  ELSE IF d < 0 THEN <<"(", "-">> \o NumStr(0 - d) \o <<")">>
  ELSE <<>>

\* C5: in a newest-first sequence of n >= 1 revisions, entry i < n renders
\* size[i] - size[i+1] as "(+d)", "(d)" or nothing, and the last entry
\* renders no delta; sizes [500, 420, 420] render "(+80)", nothing, nothing.
C5_HistoryDelta ==
  PureDone("history") =>
    LET revs == pure.in
        n == Len(revs)
    IN /\ Len(pure.out) = n
       /\ \A i \in 1..n :
            DeltaShown(pure.out[i]) =
              IF i < n THEN DeltaExpected(revs[i].size - revs[i + 1].size) ELSE <<>>
       /\ (n = 3 /\ revs[1].size = 500 /\ revs[2].size = 420 /\ revs[3].size = 420)
            => /\ DeltaShown(pure.out[1]) = <<"(+", "8", "0", ")">>
               /\ DeltaShown(pure.out[2]) = <<>>
               /\ DeltaShown(pure.out[3]) = <<>>

\* C5 witness: the sizes [420, 500, 420] were rendered, with a negative and
\* a positive delta.
C5_Witness ==
  /\ PureDone("history") /\ Len(pure.in) = 3
  /\ pure.in[1].size = 420 /\ pure.in[2].size = 500 /\ pure.in[3].size = 420
  /\ DeltaShown(pure.out[1]) = <<"(", "-", "8", "0", ")">>
  /\ DeltaShown(pure.out[2]) = <<"(+", "8", "0", ")">>

KindExpected(type) ==
  IF type = <<"e", "d", "i", "t">> THEN <<"E", "D", "I", "T">>
  ELSE IF type = <<"n", "e", "w">> THEN <<"N", "E", "W">>
  ELSE <<"L", "O", "G">>

\* C6: a change with byte lengths oldlen and newlen renders newlen - oldlen,
\* with a leading "+" when positive and as the bare number otherwise, and
\* its kind upper-cased: 100 -> 80 is "-20", 100 -> 150 is "+50", equal
\* lengths are "0".
C6_ChangeDelta ==
  (PureDone("changes") /\ IsSome(pure.in.oldlen) /\ IsSome(pure.in.newlen)) =>
    LET d == Get(pure.in.newlen) - Get(pure.in.oldlen)
        shown == Between(pure.out, "   Size change: ", " bytes\n")
    IN /\ shown = IF d > 0 THEN <<"+">> \o NumStr(d) ELSE NumStr(d)
       /\ Between(pure.out, ". [", "] **") = KindExpected(pure.in.type)
       /\ (pure.in.oldlen = Some(100) /\ pure.in.newlen = Some(80))
            => shown = <<"-", "2", "0">>
       /\ (pure.in.oldlen = Some(100) /\ pure.in.newlen = Some(150))
            => shown = <<"+", "5", "0">>
       /\ pure.in.oldlen = pure.in.newlen => shown = <<"0">>

\* C6 witness: a log entry shrinking from 100 to 80 bytes was rendered.
C6_Witness ==
  /\ PureDone("changes") /\ pure.in.type = <<"l", "o", "g">>
  /\ pure.in.oldlen = Some(100) /\ pure.in.newlen = Some(80)
  /\ Between(pure.out, "   Size change: ", " bytes\n") = <<"-", "2", "0">>

HasCategoryPrefix(c) ==
  /\ Len(c) >= 9
  /\ SubSeq(c, 1, 9) = <<"C", "a", "t", "e", "g", "o", "r", "y", ":">>

\* C7: a name without the "Category:" prefix and the same name with it issue
\* the identical request; a prefixed name is sent unchanged; the heading of
\* get_category_members shows the title sent.
C7_CategoryNormalized ==
  PureDone("getCategoryMembers") =>
    LET c == pure.in.category
        o == pure.out
    IN /\ ~HasCategoryPrefix(c) =>
            /\ o.req = o.reqPrefixed
            /\ o.req.params.cmtitle = <<"C", "a", "t", "e", "g", "o", "r", "y", ":">> \o c
       /\ HasCategoryPrefix(c) => o.req.params.cmtitle = c
       /\ o.req.params.cmlimit = pure.in.limit
       /\ o.heading = <<"# Category: ">> \o o.req.params.cmtitle \o <<"\n">>

\* C7 witness: an already-prefixed name was sent as it is, and the heading
\* shows it.
C7_Witness ==
  /\ PureDone("getCategoryMembers")
  /\ pure.in.category = <<"C", "a", "t", "e", "g", "o", "r", "y", ":", "F">>
  /\ pure.out.req.params.cmtitle = pure.in.category
  /\ pure.out.heading = <<"# Category: ">> \o pure.in.category \o <<"\n">>

HexPairChar(a, b) ==
  CASE a = "2" /\ b = "0" -> " "
    [] a = "2" /\ b = "B" -> "+"
    [] a = "2" /\ b = "5" -> "%"
    [] a = "2" /\ b = "F" -> "/"
    [] a = "3" /\ b = "A" -> ":"
    [] a = "3" /\ b = "C" -> "<"
    [] a = "3" /\ b = "E" -> ">"
    [] OTHER -> "?"

\* decodeURIComponent on an encoded segment.
RECURSIVE PercentDecode(_)
PercentDecode(s) ==
  IF Len(s) = 0 THEN <<>>
  ELSE IF Head(s) = "%" /\ Len(s) >= 3
       THEN <<HexPairChar(s[2], s[3])>> \o PercentDecode(SubSeq(s, 4, Len(s)))
       ELSE <<Head(s)>> \o PercentDecode(Tail(s))

BaseAddress ==
  IF Len(config.baseUrl) > 0 /\ Last(config.baseUrl) = "/"
  THEN SubSeq(config.baseUrl, 1, Len(config.baseUrl) - 1)
  ELSE config.baseUrl

\* The part of a page URL after <base>/index.php/.
UrlSegment(url) == SubSeq(url, Len(BaseAddress) + 2, Len(url))

Underscored(title) == [k \in 1..Len(title) |-> IF title[k] = " " THEN "_" ELSE title[k]]

NeedsEscaping(title) ==
  \E k \in 1..Len(title) : title[k] \in {"+", "%", "/", ":", "<", ">", "?"}

NoRequestIssued == \A i \in Slots : inv[i].pc = "idle" /\ inv[i].reqs = <<>>

\* C8 (as stated): for a title with characters that need escaping,
\* percent-decoding the encoded segment gives back the original title.
C8_DecodesToOriginal ==
  (PureDone("getPageUrl") /\ NeedsEscaping(pure.in))
    => PercentDecode(UrlSegment(pure.out)) = pure.in

\* C8 (amended): getPageUrl issues no request and returns the base address
\* without its trailing slash, "/index.php/", and a percent-encoded segment
\* free of spaces that decodes to the title with every space replaced by an
\* underscore (so to the title itself exactly when it has no space);
\* "Main Page" gives Main_Page.
C8_DecodesToUnderscored ==
  PureDone("getPageUrl") =>
    LET seg == UrlSegment(pure.out) IN
    /\ NoRequestIssued
    /\ SubSeq(pure.out, 1, Len(BaseAddress) + 1) = BaseAddress \o <<"/index.php/">>
    /\ \A k \in 1..Len(seg) : seg[k] \notin {" ", "+", "/", ":", "<", ">", "?"}
    /\ PercentDecode(seg) = Underscored(pure.in)
    /\ (\A k \in 1..Len(pure.in) : pure.in[k] # " ") => PercentDecode(seg) = pure.in
    /\ pure.in = <<"M", "a", "i", "n", " ", "P", "a", "g", "e">>
         => seg = <<"M", "a", "i", "n", "_", "P", "a", "g", "e">>
    /\ pure.in = <<"C", "+", "+">> => seg = <<"C", "%", "2", "B", "%", "2", "B">>

\* C8 witness: a title with a space and a character that needs escaping.
C8_Witness ==
  /\ PureDone("getPageUrl") /\ pure.in = <<"+", " ">>
  /\ UrlSegment(pure.out) = <<"%", "2", "B", "_">>

CredentialSupplied ==
  \/ IsSome(config.username) /\ Len(Get(config.username)) > 0
  \/ IsSome(config.password) /\ Len(Get(config.password)) > 0
  \/ IsSome(config.apiToken) /\ Len(Get(config.apiToken)) > 0

\* C9 (as stated; the code violates it): when the configuration supplies any
\* of its credential fields every request carries a credential, when it
\* supplies none no request carries one, and the attachment never changes.
C9_CredentialAttached ==
  /\ client.headers = NewClient(config).headers
  /\ \A i \in Slots : \A k \in 1..Len(inv[i].reqs) :
       CredentialSupplied <=> IsSome(inv[i].reqs[k].headers.Authorization)

RECURSIVE ReplayFrom(_, _, _)
ReplayFrom(c, s, resps) ==
  IF Len(resps) = 0 THEN s
  ELSE ReplayFrom(c, Settled(c, s, Head(resps)), Tail(resps))

\* The invocation run alone on a freshly constructed client, fed the
\* responses resps to its own requests.
RunAlone(cfg, tool, args, resps) ==
  ReplayFrom(NewClient(cfg), Started(NewClient(cfg), tool, args), resps)

\* C10: whatever the interleaving on the shared client, each invocation is
\* where it would be had it run alone on a fresh client with the same
\* configuration and the same responses to its own requests, and the
\* client's configuration is never changed.
C10_Independent ==
  /\ client = NewClient(config)
  /\ \A i \in Slots :
       inv[i].pc # "idle" =>
         inv[i] = RunAlone(config, inv[i].tool, inv[i].args, inv[i].resps)

\* C10 witness: get_page finished with its two requests while a search of
\* another title, begun in between, is still in flight.
C10_Witness ==
  /\ inv[1].pc = "done" /\ inv[1].tool = "get_page" /\ Len(inv[1].reqs) = 2
  /\ inv[1].result.kind = "text"
  /\ inv[2].pc = "await" /\ inv[2].tool = "search_pages"
  /\ inv[2].args.query.s = <<"C", "+", "+">>

\* The k-th posted message has been answered on the stream of the
\* connection it was addressed to.
Answered(k) ==
  /\ k <= Len(sse.posts)
  /\ \E e \in 1..Len(sse.conns[sse.posts[k].conn].stream) :
       LET ev == sse.conns[sse.posts[k].conn].stream[e]
       IN ev.event = "message" /\ ev.data = <<"result", k>>

\* C11 (as stated): every tool-invocation message posted to the companion
\* endpoint of an open streaming connection is eventually dispatched and
\* its result delivered over that connection's stream.  The code violates
\* it: the posted message is acknowledged and dropped.
C11_PostedIsAnswered ==
  \A k \in 1..MaxPosts : (k <= Len(sse.posts)) ~> Answered(k)

\* The stdio half of C11: a message whose handler awaits the remote
\* service is eventually answered.
StdioAnswered == (inv[1].pc = "await") ~> (inv[1].pc = "done")

\* The records getRecentChanges handed to the handler in slot 1.
ChangesReturned == GetRecentChangesResult(ApiOutcome(inv[1].resps[1]).data)

\* C12 (as stated): every record getRecentChanges returns carries oldlen
\* and newlen as numbers, whatever the remote response omits, so the delta
\* get_recent_changes prints is a defined number.  The code violates it:
\* the records of the response are returned as they came.
C12_LengthsAlwaysNumbers ==
  (/\ inv[1].pc = "done" /\ inv[1].tool = "get_recent_changes"
   /\ Len(inv[1].resps) = 1 /\ ApiOutcome(inv[1].resps[1]).ok) =>
    /\ \A k \in 1..Len(ChangesReturned) :
         IsSome(ChangesReturned[k].oldlen) /\ IsSome(ChangesReturned[k].newlen)
    /\ \A j \in 1..Len(inv[1].result.text) : inv[1].result.text[j] # "NaN"

\* The GET is the outgoing-links operation for title: prop=links on titles.
IsOutgoingLinksRequest(req, title) ==
  /\ "prop" \in DOMAIN req.params /\ req.params.prop = "links"
  /\ "titles" \in DOMAIN req.params /\ req.params.titles = title
  /\ "list" \notin DOMAIN req.params

\* The GET is the backlinks operation for title: list=backlinks on bltitle.
IsBacklinksRequest(req, title) ==
  /\ "list" \in DOMAIN req.params /\ req.params.list = "backlinks"
  /\ "bltitle" \in DOMAIN req.params /\ req.params.bltitle = title
  /\ "prop" \notin DOMAIN req.params

\* The direction the caller asked for: "from" when omitted.
DirectionAsked(args) ==
  IF args.direction.k = "absent" THEN <<"from">> ELSE args.direction.s

\* The links the answered call found, by the direction asked.
LinksFound(args, r) ==
  IF DirectionAsked(args) = <<"from">>
  THEN IF IsEmptyList(ListIn(r, "pages")) THEN 0
       ELSE IF IsSome(Get(ListIn(r, "pages"))[1].links)
            THEN Len(Get(Get(ListIn(r, "pages"))[1].links)) ELSE 0
  ELSE IF IsEmptyList(ListIn(r, "backlinks")) THEN 0
       ELSE Len(Get(ListIn(r, "backlinks")))

\* C13: get_page_links with direction "from", or with no direction, issues
\* exactly the outgoing-links request for the title and never the backlinks
\* one; with direction "to" exactly the backlinks request and never the
\* outgoing-links one; the heading and the zero-results text are those of
\* the direction used.
C13_LinksDispatch ==
  \A i \in Slots :
    (/\ inv[i].tool = "get_page_links" /\ inv[i].pc \in {"await", "done"}
     /\ InContract("get_page_links", inv[i].args)) =>
      LET args  == inv[i].args
          title == args.title.s
          from  == DirectionAsked(args) = <<"from">>
          text  == inv[i].result.text
      IN /\ Len(inv[i].reqs) = 1
         /\ from => IsOutgoingLinksRequest(inv[i].reqs[1], title)
         /\ ~from => IsBacklinksRequest(inv[i].reqs[1], title)
         /\ (inv[i].pc = "await") =>
              inv[i].op = IF from THEN "getPageLinks" ELSE "getBacklinks"
         /\ (inv[i].pc = "done" /\ inv[i].resps[1].kind = "ok") =>
              /\ inv[i].result.kind = "text"
              /\ IF LinksFound(args, inv[i].resps[1]) = 0
                 THEN text = IF from
                             THEN Quoted("No outgoing links found from \"", title, "\"")
                             ELSE Quoted("No backlinks found to \"", title, "\"")
                 ELSE Head(text) = IF from THEN "# Links from: " ELSE "# Links to: "

\* C13 witness: a call with direction "to" was answered with one backlink
\* under the "Links to" heading.
C13_Witness ==
  /\ inv[1].pc = "done" /\ inv[1].tool = "get_page_links"
  /\ inv[1].args.direction.s = <<"to">> /\ inv[1].args.title.k = "string"
  /\ Len(inv[1].reqs) = 1 /\ IsBacklinksRequest(inv[1].reqs[1], TitleAB)
  /\ inv[1].result.kind = "text" /\ Head(inv[1].result.text) = "# Links to: "

\* Position p of s lies in a tag: a "<" at or before p with no ">" from it
\* up to p, and a ">" at or after p that closes it.
InTag(s, p) ==
  \E i \in 1..p :
    /\ s[i] = "<" /\ \A x \in i..(p - 1) : s[x] # ">"
    /\ \E j \in p..Len(s) : j > i /\ s[j] = ">"

\* The tokens of s at the positions in P, in order.
RECURSIVE Picked(_, _, _)
Picked(s, P, from) ==
  IF from > Len(s) THEN <<>>
  ELSE (IF from \in P THEN <<s[from]>> ELSE <<>>) \o Picked(s, P, from + 1)

WithoutTags(s) == Picked(s, {p \in 1..Len(s) : ~InTag(s, p)}, 1)

\* A "<" with a ">" somewhere after it: the text still holds a tag.
HoldsTag(s) == \E i \in 1..Len(s) : s[i] = "<" /\ \E j \in (i + 1)..Len(s) : s[j] = ">"

\* What the entry shows after "Snippet:" up to the end of the line.
SnippetShown(entry) ==
  SubSeq(entry, IndexOf(entry, "   Snippet: ") + 1, IndexOf(entry, "   Size: ") - 2)

\* C14: the text shown after "Snippet:" is the snippet with every tag (a
\* "<", any characters other than ">", then ">") removed and every other
\* character kept in order; it holds no tag any more, and
\* "<span>hello</span> world" is shown as "hello world".
C14_SnippetStripped ==
  PureDone("snippet") =>
    /\ SnippetShown(pure.out) = WithoutTags(pure.in)
    /\ ~HoldsTag(SnippetShown(pure.out))
    /\ pure.in = SnippetSpanHello =>
         SnippetShown(pure.out) = <<"h", "e", "l", "l", "o", " ", "w", "o", "r", "l", "d">>

\* C14 witness: the snippet "<span>hello</span> world", two tags with text
\* between and after them, was rendered with both tags gone.
C14_Witness ==
  /\ PureDone("snippet") /\ pure.in = SnippetSpanHello
  /\ SnippetShown(pure.out) = <<"h", "e", "l", "l", "o", " ", "w", "o", "r", "l", "d">>

\* The GET is the page-metadata request for title.
IsGetPageRequest(req, title) ==
  /\ req.params.action = "query"
  /\ "titles" \in DOMAIN req.params /\ req.params.titles = title
  /\ "prop" \in DOMAIN req.params /\ req.params.prop = "revisions|info|categories"

\* The GET is the rendered-HTML request for title.
IsParseRequest(req, title) ==
  /\ req.params.action = "parse"
  /\ "page" \in DOMAIN req.params /\ req.params.page = title

\* The response is a success that reports an existing page.
PageExists(r) ==
  /\ r.kind = "ok" /\ ~IsEmptyList(ListIn(r, "pages"))
  /\ ~Get(ListIn(r, "pages"))[1].missing

\* The rendered HTML a successful parse response carries ('' when it has none).
HtmlOf(r) ==
  IF IsSome(r.data.parse) /\ IsSome(Get(r.data.parse).text)
  THEN Get(Get(r.data.parse).text) ELSE <<>>

\* The tokens of s after the first a, up to the next b.
Field(s, a, b) ==
  LET rest == SubSeq(s, IndexOf(s, a) + 1, Len(s))
  IN SubSeq(rest, 1, IndexOf(rest, b) - 1)

\* The body a page text shows under "## Content".
BodyShown(text) == SubSeq(text, IndexOf(text, "## Content\n\n") + 1, Len(text))

\* C15: a get_page invocation first issues the page-metadata request; the
\* rendered-HTML request follows only after that one returned an existing
\* page and only when include_html is true.  A missing page costs one
\* request, include_html false costs one, include_html true on an existing
\* page costs two in that order, the body shown then being the rendered
\* HTML and the metadata that of the first response; when the second
\* request fails the invocation is an error result with no page text.
C15_GetPageSequencing ==
  \A i \in Slots :
    (/\ inv[i].tool = "get_page" /\ inv[i].pc \in {"await", "done"}
     /\ InContract("get_page", inv[i].args)) =>
      LET args  == inv[i].args
          title == args.title.s
          html  == args.include_html.k = "boolean" /\ args.include_html.b
          reqs  == inv[i].reqs
          resps == inv[i].resps
          done  == inv[i].pc = "done"
          text  == inv[i].result.text
      IN /\ Len(reqs) \in {1, 2} /\ IsGetPageRequest(reqs[1], title)
         /\ Len(reqs) = 2 =>
              /\ html /\ Len(resps) >= 1 /\ PageExists(resps[1])
              /\ IsParseRequest(reqs[2], title)
         /\ ~done => Len(resps) = Len(reqs) - 1
         /\ done => Len(resps) = Len(reqs)
         /\ (done /\ ~PageExists(resps[1])) => Len(reqs) = 1
         /\ (done /\ ~html) => Len(reqs) = 1
         /\ (done /\ html /\ PageExists(resps[1])) =>
              /\ Len(reqs) = 2
              /\ resps[2].kind = "ok" =>
                   LET page == Get(ListIn(resps[1], "pages"))[1]
                   IN /\ inv[i].result.kind = "text"
                      /\ BodyShown(text) = HtmlOf(resps[2])
                      /\ Field(text, "# Page: ", "\n") = page.title
                      /\ Field(text, "- Page ID: ", "\n") = NumStr(page.pageid)
                      /\ Field(text, "- Size: ", " bytes\n") =
                           NumStr(IF IsSome(page.length) THEN Get(page.length) ELSE 0)
              /\ resps[2].kind # "ok" =>
                   /\ inv[i].result.kind = "error"
                   /\ \A j \in 1..Len(text) : text[j] \notin {"# Page: ", "## Content\n\n"}

\* C15 witness: include_html true on an existing page with wikitext "text":
\* two requests, metadata then parse, and the body shown is the HTML.
C15_Witness ==
  /\ inv[1].pc = "done" /\ inv[1].tool = "get_page"
  /\ inv[1].args.include_html.b
  /\ Len(inv[1].reqs) = 2 /\ Len(inv[1].resps) = 2
  /\ IsGetPageRequest(inv[1].reqs[1], TitleAB) /\ IsParseRequest(inv[1].reqs[2], TitleAB)
  /\ PageExists(inv[1].resps[1])
  /\ IsSome(Get(ListIn(inv[1].resps[1], "pages"))[1].revisions)
  /\ BodyShown(inv[1].result.text) = <<"<", "p", ">", "x">>

====
